---- MODULE Spec2Model ----
(***************************************************************************)
(* Cisco2Hosts.py: the DHCP reservations of a switch are extracted from    *)
(* its configuration text, rendered as a host file, parsed back into DNS   *)
(* entries and written to a Fortinet DNS database over an interactive      *)
(* shell.  Text is modelled as sequences of one-character strings, so that *)
(* splitting, stripping, matching, joining and parsing are computed and    *)
(* not assumed.                                                            *)
(***************************************************************************)
EXTENDS Integers, Sequences, FiniteSets, TLC

VARIABLES
    pc,               \* position of the program
    dhcp_config,      \* convert_to_host_file: raw configuration text
    existing_content, \* convert_to_host_file: text of the existing host file
    dnsdomain,        \* convert_to_host_file / configure_fortinet_dns: domain
    lines,            \* convert_to_host_file: dhcp_config.split('\n')
    pos,              \* convert_to_host_file: number of lines scanned
    in_dhcp_pool,     \* convert_to_host_file: the in-pool flag
    pool_name,        \* convert_to_host_file: current pool name (NoName: unbound)
    host_entries,     \* convert_to_host_file: list of <<ip, hostname>>
    entry_src,        \* history: for each entry, the number of the line it was read from
    now,              \* convert_to_host_file: the formatted clock reading
    host_file,        \* the rendered document (host_file_content downstream)
    prev_calls,       \* history: <<now, host_file>> of the earlier calls of the renderer
    dns_entries,      \* parse_host_file: list of <<hostname, ip>>
    ssh_client,       \* write_dns_to_fortinet: "unset", "None", "open", "closed"
    idx,              \* configure_fortinet_dns: record index
    entry_no,         \* configure_fortinet_dns: entries of the loop already handled
    sent,             \* texts written to the shell, in order
    output,           \* send_command: the text last read from the shell
    fault,            \* history: the exception raised in send_command and the ordinal
                      \* of the command it hit, or NoFault
    cisco_client,     \* main: ssh_client, "unset", "None", "open", "closed"
    commands,         \* main: config['commands'], the mapping in its order
    cmd_no,           \* execute_unix_commands: items of the mapping already handled
    output_file,      \* the content of the output file on disk, NoDoc before it is written
    steps             \* history: what main has done and logged so far, in order

vars == <<pc, dhcp_config, existing_content, dnsdomain, lines, pos, in_dhcp_pool,
          pool_name, host_entries, entry_src, now, host_file, prev_calls,
          dns_entries, ssh_client, idx, entry_no, sent, output, fault,
          cisco_client, commands, cmd_no, output_file, steps>>

convert_vars == <<dhcp_config, existing_content, dnsdomain, lines, pos, in_dhcp_pool,
                  pool_name, host_entries, entry_src, now, host_file, prev_calls>>

fortinet_vars == <<ssh_client, idx, entry_no, sent, output, fault>>

main_vars == <<cisco_client, commands, cmd_no, output_file, steps>>

-----------------------------------------------------------------------------
(* Bounds of the model *)

\* lines of a configuration text made of ConfigLines
MaxLines == 4

\* lines of a configuration text made of OddLines
MaxOddLines == 4

\* calls of the renderer with the same arguments
MaxCalls == 2

\* lines of a document given to write_dns_to_fortinet
MaxDocLines == 3

\* lines of a configuration text retrieved in main
MaxMainLines == 2

-----------------------------------------------------------------------------
(* Text primitives of Python's str and re, on sequences of characters *)

NL == "\n"

SP == " "

\* str.isspace / the regex class \s, on the characters the model uses
IsSpace(c) == c \in {" ", "\t", "\n", "\r"}

\* the line boundaries of str.splitlines, on the characters the model uses
IsLineBreak(c) == c \in {"\n", "\r"}

DigitChars == <<"0", "1", "2", "3", "4", "5", "6", "7", "8", "9">>

IsDigit(c) == \E d \in 1..10 : DigitChars[d] = c

DigitVal(c) == (CHOOSE d \in 1..10 : DigitChars[d] = c) - 1

UpperChars == <<"A", "B", "C", "D", "E", "F", "G", "H", "I", "J", "K", "L", "M",
                "N", "O", "P", "Q", "R", "S", "T", "U", "V", "W", "X", "Y", "Z">>

LowerChars == <<"a", "b", "c", "d", "e", "f", "g", "h", "i", "j", "k", "l", "m",
                "n", "o", "p", "q", "r", "s", "t", "u", "v", "w", "x", "y", "z">>

\* str.lower, character by character
LowerChar(c) ==
    IF \E k \in 1..26 : UpperChars[k] = c
    THEN LowerChars[CHOOSE k \in 1..26 : UpperChars[k] = c]
    ELSE c

Lower(s) == [k \in 1..Len(s) |-> LowerChar(s[k])]

StartsWith(s, p) == Len(s) >= Len(p) /\ SubSeq(s, 1, Len(p)) = p

Drop(s, n) == SubSeq(s, n + 1, Len(s))

\* number of leading whitespace characters
RECURSIVE LeadingSpaces(_)
LeadingSpaces(s) ==
    IF s = <<>> \/ ~IsSpace(Head(s)) THEN 0 ELSE 1 + LeadingSpaces(Tail(s))

\* number of leading non-whitespace characters
RECURSIVE LeadingToken(_)
LeadingToken(s) ==
    IF s = <<>> \/ IsSpace(Head(s)) THEN 0 ELSE 1 + LeadingToken(Tail(s))

RECURSIVE TrailingSpaces(_)
TrailingSpaces(s) ==
    IF s = <<>> \/ ~IsSpace(s[Len(s)]) THEN 0
    ELSE 1 + TrailingSpaces(SubSeq(s, 1, Len(s) - 1))

\* str.strip()
Strip(s) ==
    LET a == LeadingSpaces(s)
    IN  IF a = Len(s) THEN <<>> ELSE SubSeq(s, a + 1, Len(s) - TrailingSpaces(s))

\* str.split(sep) for a one-character sep: always at least one piece
RECURSIVE SplitOn(_, _)
SplitOn(s, sep) ==
    LET at == {j \in 1..Len(s) : s[j] = sep}
    IN  IF at = {} THEN <<s>>
        ELSE LET k == CHOOSE j \in at : \A h \in at : j <= h
             IN  <<SubSeq(s, 1, k - 1)>> \o SplitOn(Drop(s, k), sep)

\* str.split(): the maximal runs of non-whitespace characters
RECURSIVE SplitWs(_)
SplitWs(s) ==
    LET t == Drop(s, LeadingSpaces(s))
    IN  IF t = <<>> THEN <<>>
        ELSE LET n == LeadingToken(t)
             IN  <<SubSeq(t, 1, n)>> \o SplitWs(Drop(t, n))

\* str.splitlines(): a CR LF pair is one boundary, no empty line after the last boundary
RECURSIVE SplitLines(_)
SplitLines(s) ==
    LET at == {j \in 1..Len(s) : IsLineBreak(s[j])}
    IN  IF s = <<>> THEN <<>>
        ELSE IF at = {} THEN <<s>>
        ELSE LET k == CHOOSE j \in at : \A h \in at : j <= h
                 w == IF s[k] = "\r" /\ k < Len(s) /\ s[k + 1] = "\n" THEN 2 ELSE 1
             IN  <<SubSeq(s, 1, k - 1)>> \o SplitLines(Drop(s, k + w - 1))

\* sep.join(parts)
RECURSIVE Join(_, _)
Join(parts, sep) ==
    IF parts = <<>> THEN <<>>
    ELSE IF Len(parts) = 1 THEN parts[1]
    ELSE parts[1] \o sep \o Join(Tail(parts), sep)

\* value of a run of decimal digits
RECURSIVE DigitsValue(_)
DigitsValue(s) ==
    IF s = <<>> THEN 0 ELSE 10 * DigitsValue(SubSeq(s, 1, Len(s) - 1)) + DigitVal(s[Len(s)])

IsSigned(s) == s # <<>> /\ s[1] \in {"+", "-"}

IntBody(s) == IF IsSigned(s) THEN Tail(s) ELSE s

\* whether int(s) raises ValueError, for a string without whitespace or
\* underscores: it takes an optional sign and decimal digits, nothing else
IntRaises(s) == IntBody(s) = <<>> \/ \E k \in 1..Len(IntBody(s)) : ~IsDigit(IntBody(s)[k])

\* int(s) where it does not raise
ParseInt(s) ==
    IF IsSigned(s) /\ s[1] = "-" THEN 0 - DigitsValue(IntBody(s)) ELSE DigitsValue(IntBody(s))

-----------------------------------------------------------------------------
(* convert_to_host_file *)

PoolPrefix == <<"i", "p", " ", "d", "h", "c", "p", " ", "p", "o", "o", "l", " ">>

HostPrefix == <<"h", "o", "s", "t", " ">>

HeaderBanner ==
    <<"#", " ", "A", "u", "t", "o", " ", "c", "r", "e", "a", "t", "e", "d", " ", "h", "o",
      "s", "t", " ", "f", "i", "l", "e", " ", NL, "#", " ", "G", "e", "n", "e", "r",
      "a", "t", "e", "d", " ", "f", "r", "o", "m", " ", "s", "w", "i", "t", "c", "h",
      " ", "d", "h", "c", "p", " ", "c", "o", "n", "f", "i", "g", "u", "r", "a", "t",
      "i", "o", "n", " ", NL, "#", " ", "G", "e", "n", "e", "r", "a", "t", "e", "d",
      " ", "o", "n", " ">>

DateAndHour ==
    <<"2", "0", "2", "6", "-", "1", "1", "-", "0", "5", " ", "1", "7", ":">>

NoMatch == <<>>

\* a name not bound yet (a pool name is never empty)
NoName == <<>>

\* re.match(r"\s*ip dhcp pool (.+)$", line): <<group 1>>, or NoMatch.  The line
\* comes out of split('\n'), so "." and "$" meet no line feed inside it.
PoolMatch(line) ==
    LET t == Drop(line, LeadingSpaces(line))
        rest == Drop(t, Len(PoolPrefix))
    IN  IF StartsWith(t, PoolPrefix) /\ rest # <<>> /\ \A k \in 1..Len(rest) : rest[k] # NL
        THEN <<rest>>
        ELSE NoMatch

\* re.match(r"\s*host ([^\s]+) ([^\s]+)", line): <<group 1, group 2>>, or NoMatch
HostMatch(line) ==
    LET t == Drop(line, LeadingSpaces(line))
        a == Drop(t, Len(HostPrefix))
        n1 == LeadingToken(a)
        b == Drop(a, n1 + 1)
        n2 == LeadingToken(b)
    IN  IF StartsWith(t, HostPrefix) /\ n1 > 0 /\ Len(a) > n1 /\ a[n1 + 1] = SP /\ n2 > 0
        THEN <<SubSeq(a, 1, n1), SubSeq(b, 1, n2)>>
        ELSE NoMatch

\* KeyParts with the first octet kept in the key
KeyParts_AllOctets(ip) == SplitOn(ip, ".")

\* the key of line 117: tuple(map(int, x[0].split('.')[1:]))
KeyParts(ip) == Tail(SplitOn(ip, "."))

SortKey(ip) == [k \in 1..Len(KeyParts(ip)) |-> ParseInt(KeyParts(ip)[k])]

KeyRaises(ip) == \E k \in 1..Len(KeyParts(ip)) : IntRaises(KeyParts(ip)[k])

\* Python's order of tuples of integers: a < b
RECURSIVE TupleLess(_, _)
TupleLess(a, b) ==
    IF b = <<>> THEN FALSE
    ELSE IF a = <<>> THEN TRUE
    ELSE IF Head(a) # Head(b) THEN Head(a) < Head(b)
    ELSE TupleLess(Tail(a), Tail(b))

\* where sorted() puts e among the already sorted: after every element that is
\* not greater (the sort is stable)
InsertSorted(sorted, e) ==
    LET later == {j \in 1..Len(sorted) : TupleLess(SortKey(e[1]), SortKey(sorted[j][1]))}
        at == IF later = {} THEN Len(sorted) + 1
              ELSE CHOOSE j \in later : \A h \in later : j <= h
    IN  SubSeq(sorted, 1, at - 1) \o <<e>> \o SubSeq(sorted, at, Len(sorted))

\* sorted(host_entries, key=...)
RECURSIVE Sorted(_)
Sorted(entries) ==
    IF entries = <<>> THEN <<>>
    ELSE InsertSorted(Sorted(SubSeq(entries, 1, Len(entries) - 1)), entries[Len(entries)])

TwoDigits(n) == <<DigitChars[(n \div 10) + 1], DigitChars[(n % 10) + 1]>>

\* the clock, in seconds after 2026-11-05 17:00:00, as datetime.now() may read it
ClockReadings == {0, 30, 60}

\* datetime.datetime.now().strftime("%Y-%m-%d %H:%M")
FormatNow(clock) == DateAndHour \o TwoDigits(clock \div 60)

\* the header of line 121
Header(stamp) == HeaderBanner \o stamp \o <<SP, NL>>

\* HostName with the domain appended as a ready-made suffix
HostName_Concat(pool, domain) == pool \o domain

\* line 113: pool_name + "." + dnsdomain
HostName(pool, domain) == pool \o <<".">> \o domain

\* EntryLine with the hostname written first
EntryLine_HostFirst(e) == e[2] \o <<SP>> \o e[1]

\* f"{ip} {hostname}"
EntryLine(e) == e[1] \o <<SP>> \o e[2]

\* line 123
Render(stamp, existing, sorted_entries) ==
    Header(stamp) \o existing
        \o Join([k \in 1..Len(sorted_entries) |-> EntryLine(sorted_entries[k])], <<NL>>)

\* no text yet (a rendered document is never empty)
NoDoc == <<>>

\* lines 99-102
ConvertBegin ==
    /\ pc = "convert"
    /\ lines' = SplitOn(dhcp_config, NL)
    /\ pos' = 0
    /\ in_dhcp_pool' = FALSE
    /\ host_entries' = <<>>
    /\ entry_src' = <<>>
    /\ pc' = "scan"
    /\ UNCHANGED <<dhcp_config, existing_content, dnsdomain, pool_name, now, host_file,
                   prev_calls, dns_entries, fortinet_vars, main_vars>>

\* ScanLine with the flag left as it is by a line that matches nothing
ScanLine_KeepsContext ==
    /\ pc = "scan"
    /\ pos < Len(lines)
    /\ LET line == Strip(lines[pos + 1])
           pool_match == PoolMatch(line)
           entry == HostMatch(line)
       IN  IF pool_match # NoMatch
           THEN /\ in_dhcp_pool' = TRUE
                /\ pool_name' = Lower(pool_match[1])
                /\ UNCHANGED <<host_entries, entry_src>>
           ELSE IF in_dhcp_pool /\ entry # NoMatch
           THEN /\ host_entries' =
                       Append(host_entries, <<entry[1], HostName(pool_name, dnsdomain)>>)
                /\ entry_src' = Append(entry_src, pos + 1)
                /\ UNCHANGED <<in_dhcp_pool, pool_name>>
           ELSE UNCHANGED <<in_dhcp_pool, pool_name, host_entries, entry_src>>
    /\ pos' = pos + 1
    /\ UNCHANGED <<pc, dhcp_config, existing_content, dnsdomain, lines, now, host_file,
                   prev_calls, dns_entries, fortinet_vars, main_vars>>

\* ScanLine with a host line taken whatever the flag says
ScanLine_NoFlagTest ==
    /\ pc = "scan"
    /\ pos < Len(lines)
    /\ LET line == Strip(lines[pos + 1])
           pool_match == PoolMatch(line)
           entry == HostMatch(line)
       IN  IF pool_match # NoMatch
           THEN /\ in_dhcp_pool' = TRUE
                /\ pool_name' = Lower(pool_match[1])
                /\ UNCHANGED <<host_entries, entry_src>>
           ELSE IF entry # NoMatch
           THEN /\ host_entries' =
                       Append(host_entries, <<entry[1], HostName(pool_name, dnsdomain)>>)
                /\ entry_src' = Append(entry_src, pos + 1)
                /\ UNCHANGED <<in_dhcp_pool, pool_name>>
           ELSE /\ in_dhcp_pool' = FALSE
                /\ UNCHANGED <<pool_name, host_entries, entry_src>>
    /\ pos' = pos + 1
    /\ UNCHANGED <<pc, dhcp_config, existing_content, dnsdomain, lines, now, host_file,
                   prev_calls, dns_entries, fortinet_vars, main_vars>>

\* one pass of the loop of lines 104-115
ScanLine ==
    /\ pc = "scan"
    /\ pos < Len(lines)
    /\ LET line == Strip(lines[pos + 1])
           pool_match == PoolMatch(line)
           entry == HostMatch(line)
       IN  IF pool_match # NoMatch
           THEN /\ in_dhcp_pool' = TRUE
                /\ pool_name' = Lower(pool_match[1])
                /\ UNCHANGED <<host_entries, entry_src>>
           ELSE IF in_dhcp_pool /\ entry # NoMatch
           THEN /\ host_entries' =
                       Append(host_entries, <<entry[1], HostName(pool_name, dnsdomain)>>)
                /\ entry_src' = Append(entry_src, pos + 1)
                /\ UNCHANGED <<in_dhcp_pool, pool_name>>
           ELSE /\ in_dhcp_pool' = FALSE
                /\ UNCHANGED <<pool_name, host_entries, entry_src>>
    /\ pos' = pos + 1
    /\ UNCHANGED <<pc, dhcp_config, existing_content, dnsdomain, lines, now, host_file,
                   prev_calls, dns_entries, fortinet_vars, main_vars>>

Reverse(s) == [k \in 1..Len(s) |-> s[Len(s) + 1 - k]]

\* SortAndRender with a sort that is not stable: records of equal key come out
\* in either order
SortAndRender_Unstable ==
    /\ pc = "scan"
    /\ pos = Len(lines)
    /\ IF \E k \in 1..Len(host_entries) : KeyRaises(host_entries[k][1])
       THEN /\ pc' = "ValueError"
            /\ UNCHANGED <<now, host_file>>
       ELSE \E clock \in ClockReadings :
            \E sorted_entries \in {Sorted(host_entries), Sorted(Reverse(host_entries))} :
                /\ now' = FormatNow(clock)
                /\ host_file' = Render(now', existing_content, sorted_entries)
                /\ pc' = "converted"
    /\ UNCHANGED <<dhcp_config, existing_content, dnsdomain, lines, pos, in_dhcp_pool,
                   pool_name, host_entries, entry_src, prev_calls, dns_entries,
                   fortinet_vars, main_vars>>

\* lines 117-125: the sort raises ValueError when a key cannot be computed;
\* otherwise the clock is read and the document is built and returned
SortAndRender ==
    /\ pc = "scan"
    /\ pos = Len(lines)
    /\ IF \E k \in 1..Len(host_entries) : KeyRaises(host_entries[k][1])
       THEN /\ pc' = "ValueError"
            /\ UNCHANGED <<now, host_file>>
       ELSE \E clock \in ClockReadings :
                /\ now' = FormatNow(clock)
                /\ host_file' = Render(now', existing_content, Sorted(host_entries))
                /\ pc' = "converted"
    /\ UNCHANGED <<dhcp_config, existing_content, dnsdomain, lines, pos, in_dhcp_pool,
                   pool_name, host_entries, entry_src, prev_calls, dns_entries,
                   fortinet_vars, main_vars>>

-----------------------------------------------------------------------------
(* parse_host_file *)

\* lines 206-215
RECURSIVE EntriesOf(_)
EntriesOf(doc_lines) ==
    IF doc_lines = <<>> THEN <<>>
    ELSE LET line == Head(doc_lines)
             parts == SplitWs(line)
         IN  (IF Strip(line) # <<>> /\ ~StartsWith(line, <<"#">>) /\ Len(parts) = 2
              THEN <<<<parts[2], parts[1]>>>>
              ELSE <<>>) \o EntriesOf(Tail(doc_lines))

parse_host_file(host_file_content) == EntriesOf(SplitLines(host_file_content))

\* line 221: write_dns_to_fortinet parses the document it is given
ParseHostFile ==
    /\ pc = "write_dns"
    /\ dns_entries' = parse_host_file(host_file)
    /\ pc' = "connect"
    /\ UNCHANGED <<convert_vars, fortinet_vars, main_vars>>

-----------------------------------------------------------------------------
(* Inputs of the conversion *)

PoolPrinter ==
    <<"i", "p", " ", "d", "h", "c", "p", " ", "p", "o", "o", "l", " ", "P", "r", "i", "n",
      "t", "e", "r">>

PoolLabPc ==
    <<"i", "p", " ", "d", "h", "c", "p", " ", "p", "o", "o", "l", " ", "L", "a", "b", " ",
      "P", "C">>

Host_10_0_2_5 ==
    <<"h", "o", "s", "t", " ", "1", "0", ".", "0", ".", "2", ".", "5", " ", "2", "5", "5",
      ".", "0", ".", "0", ".", "0">>

Host_10_0_1_9 ==
    <<"h", "o", "s", "t", " ", "1", "0", ".", "0", ".", "1", ".", "9", " ", "2", "5", "5",
      ".", "0", ".", "0", ".", "0">>

Host_10_1_0_1 ==
    <<"h", "o", "s", "t", " ", "1", "0", ".", "1", ".", "0", ".", "1", " ", "2", "5", "5",
      ".", "0", ".", "0", ".", "0">>

Host_9_0_2_5 ==
    <<"h", "o", "s", "t", " ", "9", ".", "0", ".", "2", ".", "5", " ", "2", "5", "5", ".",
      "0", ".", "0", ".", "0">>

HostnameLine == <<"h", "o", "s", "t", "n", "a", "m", "e", " ", "s", "w", "1">>

Host_10_x_0_1 ==
    <<"h", "o", "s", "t", " ", "1", "0", ".", "x", ".", "0", ".", "1", " ", "2", "5", "5",
      ".", "0", ".", "0", ".", "0">>

PoolPrinterLc ==
    <<"i", "p", " ", "d", "h", "c", "p", " ", "p", "o", "o", "l", " ", "p", "r", "i", "n",
      "t", "e", "r">>

Host_172_26_20_41 ==
    <<"h", "o", "s", "t", " ", "1", "7", "2", ".", "2", "6", ".", "2", "0", ".", "4", "1",
      " ", "2", "5", "5", ".", "2", "5", "5", ".", "2", "5", "5", ".", "0">>

HostHash ==
    <<"h", "o", "s", "t", " ", "#", "7", " ", "2", "5", "5", ".", "0", ".", "0", ".", "0">>

HomeArpa == <<"h", "o", "m", "e", ".", "a", "r", "p", "a">>

DotHomeArpa == <<".", "h", "o", "m", "e", ".", "a", "r", "p", "a">>

ExistingComment == <<"#", " ", "s", "t", "a", "t", "i", "c", NL>>

ExistingEntry ==
    <<"1", "0", ".", "0", ".", "0", ".", "1", " ", "g", "w", ".", "h", "o", "m", "e", ".",
      "a", "r", "p", "a", NL>>

ExistingUnterminated ==
    <<"1", "0", ".", "0", ".", "0", ".", "1", " ", "g", "w", ".", "h", "o", "m", "e", ".",
      "a", "r", "p", "a">>

Line_172_printer ==
    <<"1", "7", "2", ".", "2", "6", ".", "2", "0", ".", "4", "1", " ", "p", "r", "i", "n",
      "t", "e", "r", ".", "h", "o", "m", "e", ".", "a", "r", "p", "a">>

PrinterHomeArpa ==
    <<"p", "r", "i", "n", "t", "e", "r", ".", "h", "o", "m", "e", ".", "a", "r", "p", "a">>

Ip_172_26_20_41 == <<"1", "7", "2", ".", "2", "6", ".", "2", "0", ".", "4", "1">>

SeqsUpTo(S, n) == UNION {[1..k -> S] : k \in 0..n}

\* lines such as "show running-config | include ip dhcp pool | host" prints
ConfigLines ==
    {PoolPrinter, Host_10_0_2_5, Host_10_0_1_9, Host_10_1_0_1, Host_9_0_2_5, HostnameLine}

\* more lines: a second pool, a name with a blank in it, addresses that are no
\* dotted quads
OddLines == {PoolPrinterLc, PoolLabPc, Host_172_26_20_41, HostHash, Host_10_x_0_1}

ExistingCommentUnterminated == <<"#", " ", "s", "t", "a", "t", "i", "c">>

ExistingContents ==
    {<<>>, ExistingComment, ExistingCommentUnterminated, ExistingEntry, ExistingUnterminated}

Domains == {HomeArpa, DotHomeArpa}

PlainInputs ==
    {[cfg |-> Join(ls, <<NL>>), existing |-> <<>>, domain |-> HomeArpa] :
        ls \in SeqsUpTo(ConfigLines, MaxLines)}

\* each existing content with the plain domain, each domain without existing content
ContentsAndDomains ==
    {<<e, HomeArpa>> : e \in ExistingContents} \cup {<<<<>>, d>> : d \in Domains}

OddInputs ==
    {[cfg |-> Join(ls, <<NL>>), existing |-> ed[1], domain |-> ed[2]] :
        ls \in SeqsUpTo(OddLines, MaxOddLines), ed \in ContentsAndDomains}

ConvertInputs == PlainInputs \cup OddInputs

NoFault == [k |-> 0, kind |-> "none", at |-> "none"]

NoOutput == "none"

InitLocals ==
    /\ lines = <<>>
    /\ pos = 0
    /\ in_dhcp_pool = FALSE
    /\ pool_name = NoName
    /\ host_entries = <<>>
    /\ entry_src = <<>>
    /\ now = NoDoc
    /\ prev_calls = <<>>
    /\ dns_entries = <<>>
    /\ ssh_client = "unset"
    /\ idx = 0
    /\ entry_no = 0
    /\ sent = <<>>
    /\ output = NoOutput
    /\ fault = NoFault
    /\ cisco_client = "unset"
    /\ cmd_no = 0
    /\ output_file = NoDoc
    /\ steps = <<>>

InitWith(inputs) ==
    /\ pc = "convert"
    /\ \E in \in inputs :
           /\ dhcp_config = in.cfg
           /\ existing_content = in.existing
           /\ dnsdomain = in.domain
    /\ host_file = NoDoc
    /\ commands = <<>>
    /\ InitLocals

InitConvert == InitWith(ConvertInputs)

\* the rendered document is given to the entry parser as it is
FeedDocument ==
    /\ pc = "converted"
    /\ pc' = "write_dns"
    /\ UNCHANGED <<convert_vars, dns_entries, fortinet_vars, main_vars>>

NextConvert == ConvertBegin \/ ScanLine \/ SortAndRender \/ FeedDocument \/ ParseHostFile

SpecConvert == InitConvert /\ [][NextConvert]_vars

\* the renderer is called once more with the same arguments
CallAgain ==
    /\ pc = "converted"
    /\ Len(prev_calls) + 1 < MaxCalls
    /\ prev_calls' = Append(prev_calls, <<now, host_file>>)
    /\ pc' = "convert"
    /\ UNCHANGED <<dhcp_config, existing_content, dnsdomain, lines, pos, in_dhcp_pool,
                   pool_name, host_entries, entry_src, now, host_file, dns_entries,
                   fortinet_vars, main_vars>>

NextRender == ConvertBegin \/ ScanLine \/ SortAndRender \/ CallAgain

InitRender == InitWith(OddInputs)

SpecRender == InitRender /\ [][NextRender]_vars

-----------------------------------------------------------------------------
(* send_command, configure_fortinet_dns, write_dns_to_fortinet *)

CmdEnter ==
    <<"c", "o", "n", "f", "i", "g", " ", "s", "y", "s", "t", "e", "m", " ", "d", "n", "s",
      "-", "d", "a", "t", "a", "b", "a", "s", "e">>

CmdDeletePrefix == <<"d", "e", "l", "e", "t", "e", " ", "\"">>

CmdEditPrefix == <<"e", "d", "i", "t", " ">>

CmdSetDomain == <<"s", "e", "t", " ", "d", "o", "m", "a", "i", "n", " ", "\"">>

CmdSetTtl == <<"s", "e", "t", " ", "t", "t", "l", " ">>

CmdSetPrimaryName ==
    <<"s", "e", "t", " ", "p", "r", "i", "m", "a", "r", "y", "-", "n", "a", "m", "e", " ",
      "\"">>

CmdSetContact == <<"s", "e", "t", " ", "c", "o", "n", "t", "a", "c", "t", " ", "\"">>

CmdConfigEntries ==
    <<"c", "o", "n", "f", "i", "g", " ", "d", "n", "s", "-", "e", "n", "t", "r", "y">>

CmdSetType == <<"s", "e", "t", " ", "t", "y", "p", "e", " ">>

CmdSetHostname ==
    <<"s", "e", "t", " ", "h", "o", "s", "t", "n", "a", "m", "e", " ", "\"">>

CmdSetIp == <<"s", "e", "t", " ", "i", "p", " ">>

CmdSetIpv6 == <<"s", "e", "t", " ", "i", "p", "v", "6", " ">>

CmdNext == <<"n", "e", "x", "t">>

CmdEnd == <<"e", "n", "d">>

TypeA == <<"A">>

TypeAAAA == <<"A", "A", "A", "A">>

TypePTR == <<"P", "T", "R">>

TypePTRV6 == <<"P", "T", "R", "_", "V", "6">>

BaseName == <<"l", "a", "n">>

PrimaryDns ==
    <<"a", ".", "r", "o", "o", "t", "-", "s", "e", "r", "v", "e", "r", "s", ".", "n", "e",
      "t">>

Contact ==
    <<"h", "o", "s", "t", "m", "a", "s", "t", "e", "r", "@", "w", "e", "b", "s", "e", "r",
      "v", "e", "r", ".", "c", "o", "m">>

Doc_192_168_1_1 ==
    <<"1", "9", "2", ".", "1", "6", "8", ".", "1", ".", "1", " ", "n", "a", "s", ".", "l",
      "a", "n">>

Doc_fe80 ==
    <<"f", "e", "8", "0", ":", ":", "1", " ", "g", "w", ".", "l", "a", "n">>

Doc_999 ==
    <<"9", "9", "9", ".", "9", "9", "9", ".", "9", "9", "9", ".", "9", "9", "9", " ", "x",
      ".", "l", "a", "n">>

Doc_1_2_3 == <<"1", ".", "2", ".", "3", " ", "y", ".", "l", "a", "n">>

Doc_1234 ==
    <<"1", "0", ".", "0", ".", "0", ".", "1", "2", "3", "4", " ", "z", ".", "l", "a", "n">>

DocComment ==
    <<"#", " ", "s", "t", "a", "t", "i", "c", " ", "h", "o", "s", "t", "s">>

\* f"{ttl}" of the configured ttl
TtlText == <<"3", "6", "0", "0">>

QUOTE == "\""

\* str(n) for n >= 0
RECURSIVE Decimal(_)
Decimal(n) == IF n < 10 THEN <<DigitChars[n + 1]>> ELSE Decimal(n \div 10) \o <<DigitChars[(n % 10) + 1]>>

\* IsIPv4 with every group checked to be at most 255
IsIPv4_Octets(ip) ==
    LET groups == SplitOn(ip, ".")
    IN  /\ Len(groups) = 4
        /\ \A g \in 1..4 :
               /\ Len(groups[g]) \in 1..3
               /\ \A k \in 1..Len(groups[g]) : IsDigit(groups[g][k])
               /\ DigitsValue(groups[g]) <= 255

\* re.match(r'^\d{1,3}(\.\d{1,3}){3}$', ip), for an ip without whitespace
IsIPv4(ip) ==
    LET groups == SplitOn(ip, ".")
    IN  /\ Len(groups) = 4
        /\ \A g \in 1..4 :
               /\ Len(groups[g]) \in 1..3
               /\ \A k \in 1..Len(groups[g]) : IsDigit(groups[g][k])

\* lines 169, 173, 175
DeleteCommand == CmdDeletePrefix \o BaseName \o <<QUOTE>>

EditZoneCommand == CmdEditPrefix \o <<QUOTE>> \o BaseName \o <<QUOTE>>

SetCommand ==
    CmdSetDomain \o dnsdomain \o <<QUOTE, NL>>
        \o CmdSetTtl \o TtlText \o <<NL>>
        \o CmdSetPrimaryName \o PrimaryDns \o <<QUOTE, NL>>
        \o CmdSetContact \o Contact \o <<QUOTE>>

\* the f-strings of lines 186, 188, 195, 197
RecordCommand(n, type, hostname, ip_field, ip) ==
    CmdEditPrefix \o Decimal(n) \o <<NL>>
        \o CmdSetType \o type \o <<NL>>
        \o CmdSetHostname \o hostname \o <<QUOTE, NL>>
        \o ip_field \o ip \o <<NL>>
        \o CmdNext

\* lines 185-188
ForwardCommand(n, hostname, ip) ==
    IF IsIPv4(ip) THEN RecordCommand(n, TypeA, hostname, CmdSetIp, ip)
    ELSE RecordCommand(n, TypeAAAA, hostname, CmdSetIpv6, ip)

\* lines 194-197
ReverseCommand(n, hostname, ip) ==
    IF IsIPv4(ip) THEN RecordCommand(n, TypePTR, hostname, CmdSetIp, ip)
    ELSE RecordCommand(n, TypePTRV6, hostname, CmdSetIpv6, ip)

\* EndCommand leaving the zone entry without "next"
EndCommand_NoNext == CmdEnd \o <<NL>> \o CmdEnd

\* line 203
EndCommand == CmdEnd \o <<NL>> \o CmdNext \o <<NL>> \o CmdEnd

\* what the shell may answer; the text is logged and returned, never inspected
Responses == {"prompt", "Command fail. Return code -61"}

\* what may be raised while a command is sent or its answer is read
Exceptions == {"SSHException", "socket.error"}

\* Unwind with the client closed in the except clause instead of a finally clause
Unwind_CloseInHandler(kind) ==
    /\ ssh_client' = IF kind = "SSHException" THEN "closed" ELSE ssh_client
    /\ pc' = IF kind = "SSHException" THEN "returned" ELSE "raised"

\* lines 243-246: the exception leaves the try block; the finally clause closes
\* the client; an SSHException is logged and the function returns, any other
\* exception goes on to the caller
Unwind(kind) ==
    /\ ssh_client' = "closed"
    /\ pc' = IF kind = "SSHException" THEN "returned" ELSE "raised"

\* send_command with the exception caught and logged inside it
send_command_Swallow(command, after_pc, after_idx, after_entry_no) ==
    \/ /\ sent' = Append(sent, command \o <<NL>>)
       /\ \E text \in Responses : output' = text
       /\ pc' = after_pc
       /\ idx' = after_idx
       /\ entry_no' = after_entry_no
       /\ UNCHANGED <<ssh_client, fault>>
    \/ \E kind \in Exceptions, at \in {"send", "recv"} :
           /\ fault' = [k |-> Len(sent) + 1, kind |-> kind, at |-> at]
           /\ sent' = IF at = "recv" THEN Append(sent, command \o <<NL>>) ELSE sent
           /\ pc' = after_pc
           /\ idx' = after_idx
           /\ entry_no' = after_entry_no
           /\ UNCHANGED <<ssh_client, output>>

\* send_command with the command written again when the device answers with an error
send_command_Retry(command, after_pc, after_idx, after_entry_no) ==
    \/ /\ \E text \in Responses :
              /\ output' = text
              /\ sent' = IF text = "prompt"
                         THEN Append(sent, command \o <<NL>>)
                         ELSE Append(Append(sent, command \o <<NL>>), command \o <<NL>>)
       /\ pc' = after_pc
       /\ idx' = after_idx
       /\ entry_no' = after_entry_no
       /\ UNCHANGED <<ssh_client, fault>>
    \/ \E kind \in Exceptions, at \in {"send", "recv"} :
           /\ fault' = [k |-> Len(sent) + 1, kind |-> kind, at |-> at]
           /\ sent' = IF at = "recv" THEN Append(sent, command \o <<NL>>) ELSE sent
           /\ Unwind(kind)
           /\ UNCHANGED <<idx, entry_no, output>>

\* lines 147-153, called from configure_fortinet_dns: the command and a line
\* feed are written, the answer is read after the delay.  A fault of the
\* transport raises from send (nothing written) or from recv (written).
send_command(command, after_pc, after_idx, after_entry_no) ==
    \/ /\ sent' = Append(sent, command \o <<NL>>)
       /\ \E text \in Responses : output' = text
       /\ pc' = after_pc
       /\ idx' = after_idx
       /\ entry_no' = after_entry_no
       /\ UNCHANGED <<ssh_client, fault>>
    \/ \E kind \in Exceptions, at \in {"send", "recv"} :
           /\ fault' = [k |-> Len(sent) + 1, kind |-> kind, at |-> at]
           /\ sent' = IF at = "recv" THEN Append(sent, command \o <<NL>>) ELSE sent
           /\ Unwind(kind)
           /\ UNCHANGED <<idx, entry_no, output>>

\* line 232: ssh_connect returns a client, or None after an error it caught,
\* or lets an error it does not catch (a socket error) through
Connect ==
    /\ pc = "connect"
    /\ \/ ssh_client' = "open" /\ pc' = "invoke_shell"
       \/ ssh_client' = "None" /\ pc' = "returned"
       \/ ssh_client' = "unset" /\ pc' = "raised"
    /\ UNCHANGED <<convert_vars, main_vars, dns_entries, idx, entry_no, sent, output, fault>>

\* lines 234-238
InvokeShell ==
    /\ pc = "invoke_shell"
    /\ \/ pc' = "cfg_enter" /\ UNCHANGED ssh_client
       \/ Unwind("SSHException")
    /\ UNCHANGED <<convert_vars, main_vars, dns_entries, idx, entry_no, sent, output, fault>>

\* line 166
SendEnter ==
    /\ pc = "cfg_enter"
    /\ send_command(CmdEnter, "cfg_delete", idx, entry_no)
    /\ UNCHANGED <<convert_vars, main_vars, dns_entries>>

\* SendDelete with the zone deleted only when there is an entry to write
SendDelete_IfEntries ==
    /\ pc = "cfg_delete"
    /\ IF dns_entries = <<>>
       THEN /\ pc' = "cfg_edit"
            /\ UNCHANGED fortinet_vars
       ELSE send_command(DeleteCommand, "cfg_edit", idx, entry_no)
    /\ UNCHANGED <<convert_vars, main_vars, dns_entries>>

\* lines 169-170
SendDelete ==
    /\ pc = "cfg_delete"
    /\ send_command(DeleteCommand, "cfg_edit", idx, entry_no)
    /\ UNCHANGED <<convert_vars, main_vars, dns_entries>>

\* line 173
SendEditZone ==
    /\ pc = "cfg_edit"
    /\ send_command(EditZoneCommand, "cfg_set", idx, entry_no)
    /\ UNCHANGED <<convert_vars, main_vars, dns_entries>>

\* line 175
SendSet ==
    /\ pc = "cfg_set"
    /\ send_command(SetCommand, "cfg_entries", idx, entry_no)
    /\ UNCHANGED <<convert_vars, main_vars, dns_entries>>

\* lines 177-180
SendConfigEntries ==
    /\ pc = "cfg_entries"
    /\ send_command(CmdConfigEntries, "forward", 1, 0)
    /\ UNCHANGED <<convert_vars, main_vars, dns_entries>>

\* SendForward with the entries taken from the end of the list
SendForward_FromEnd ==
    /\ pc = "forward"
    /\ entry_no < Len(dns_entries)
    /\ LET entry == dns_entries[Len(dns_entries) - entry_no]
       IN  send_command(ForwardCommand(idx, entry[1], entry[2]), "reverse", idx + 1, entry_no)
    /\ UNCHANGED <<convert_vars, main_vars, dns_entries>>

\* lines 181-191: the forward record of the next entry
SendForward ==
    /\ pc = "forward"
    /\ entry_no < Len(dns_entries)
    /\ LET entry == dns_entries[entry_no + 1]
       IN  send_command(ForwardCommand(idx, entry[1], entry[2]), "reverse", idx + 1, entry_no)
    /\ UNCHANGED <<convert_vars, main_vars, dns_entries>>

\* SendReverse with the index reset after each pair
SendReverse_ResetIdx ==
    /\ pc = "reverse"
    /\ LET entry == dns_entries[entry_no + 1]
       IN  send_command(ReverseCommand(idx, entry[1], entry[2]), "forward", 1, entry_no + 1)
    /\ UNCHANGED <<convert_vars, main_vars, dns_entries>>

\* lines 193-200: the reverse record of the same entry
SendReverse ==
    /\ pc = "reverse"
    /\ LET entry == dns_entries[entry_no + 1]
       IN  send_command(ReverseCommand(idx, entry[1], entry[2]), "forward", idx + 1,
                        entry_no + 1)
    /\ UNCHANGED <<convert_vars, main_vars, dns_entries>>

\* lines 202-204
SendEnd ==
    /\ pc = "forward"
    /\ entry_no = Len(dns_entries)
    /\ send_command(EndCommand, "finally", idx, entry_no)
    /\ UNCHANGED <<convert_vars, main_vars, dns_entries>>

\* lines 245-246 after configure_fortinet_dns has returned
Finally ==
    /\ pc = "finally"
    /\ ssh_client' = "closed"
    /\ pc' = "returned"
    /\ UNCHANGED <<convert_vars, main_vars, dns_entries, idx, entry_no, sent, output, fault>>

-----------------------------------------------------------------------------
(* Documents given to write_dns_to_fortinet *)

DocLines == {Doc_192_168_1_1, Doc_fe80, Doc_999, Doc_1_2_3, Doc_1234, DocComment}

ProvisionDocs == {Join(ls, <<NL>>) : ls \in SeqsUpTo(DocLines, MaxDocLines)}

InitProvision ==
    /\ pc = "write_dns"
    /\ dhcp_config = <<>>
    /\ existing_content = <<>>
    /\ dnsdomain = HomeArpa
    /\ host_file \in ProvisionDocs
    /\ commands = <<>>
    /\ InitLocals

NextProvision ==
    \/ ParseHostFile
    \/ Connect
    \/ InvokeShell
    \/ SendEnter
    \/ SendDelete
    \/ SendEditZone
    \/ SendSet
    \/ SendConfigEntries
    \/ SendForward
    \/ SendReverse
    \/ SendEnd
    \/ Finally

SpecProvision == InitProvision /\ [][NextProvision]_vars

-----------------------------------------------------------------------------
(* What was written to the shell, read back from the text *)

\* the lines of all texts written so far, in order
RECURSIVE LinesOf(_)
LinesOf(texts) ==
    IF texts = <<>> THEN <<>> ELSE SplitLines(Head(texts)) \o LinesOf(Tail(texts))

SentLines == LinesOf(sent)

\* "edit <idx>": an edit whose argument is a number, not a quoted zone name
IsRecordEdit(line) ==
    /\ StartsWith(line, CmdEditPrefix)
    /\ Len(line) > Len(CmdEditPrefix)
    /\ \A k \in (Len(CmdEditPrefix) + 1)..Len(line) : IsDigit(line[k])

\* the idx values of the "edit <idx>" lines, in the order sent
EditIndexes ==
    LET edits == SelectSeq(SentLines, IsRecordEdit)
        n == Len(CmdEditPrefix)
    IN  [k \in 1..Len(edits) |-> DigitsValue(Drop(edits[k], n))]

\* the texts that write a record: those whose first line is "edit <idx>"
IsRecordText(text) == IsRecordEdit(Head(SplitLines(text)))

RecordTexts == SelectSeq(sent, IsRecordText)

\* configure_fortinet_dns has sent its last command and returned
ConfigureReturned ==
    \/ pc = "finally"
    \/ pc = "returned" /\ sent # <<>> /\ fault = NoFault

\* the client was obtained from ssh_connect
ConnectionObtained == ssh_client \in {"open", "closed"}

\* write_dns_to_fortinet is left, by return or by an exception
Exited == pc \in {"returned", "raised"}

IsPrefix(s, whole) == Len(s) <= Len(whole) /\ s = SubSeq(whole, 1, Len(s))

-----------------------------------------------------------------------------
(* Claims about the provisioning session, checked under SpecProvision *)

\* C1: the idx values of the "edit <idx>" commands, in the order sent, are
\* 1, 2, 3, ... without gap, repeat or reset at every point of the session, and
\* a session that ran to its end has sent exactly two of them per DNS entry.
C1_EditIndexes ==
    LET indexes == EditIndexes
    IN  /\ indexes = [k \in 1..Len(indexes) |-> k]
        /\ ConfigureReturned => Len(indexes) = 2 * Len(dns_entries)

C1_Witness ==
    /\ ConfigureReturned
    /\ Len(dns_entries) = 3
    /\ EditIndexes = <<1, 2, 3, 4, 5, 6>>

\* four groups of one to three digits, separated by three dots
IsFourGroups(ip) ==
    LET dots == {k \in 1..Len(ip) : ip[k] = "."}
    IN  /\ Cardinality(dots) = 3
        /\ \A k \in 1..Len(ip) : k \in dots \/ IsDigit(ip[k])
        /\ \A k \in dots \cup {0} :
               \E n \in 1..3 :
                   /\ \A h \in (k + 1)..(k + n) : h <= Len(ip) /\ h \notin dots
                   /\ k + n = Len(ip) \/ (k + n + 1) \in dots

\* C2: the records are written in pairs, one pair per entry in the order of the
\* entries: the first of type A with "set ip" and the second of type PTR with
\* "set ip" when the address is four dot-separated groups of 1 to 3 digits, and
\* of types AAAA and PTR_V6 with "set ipv6" for every other address; a session
\* that ran to its end has written both records of every entry.
C2_RecordTypes ==
    LET records == RecordTexts
    IN  /\ \A j \in 1..Len(records) :
               LET entry == dns_entries[(j + 1) \div 2]
                   ls == SplitLines(records[j])
                   forward == (j % 2 = 1)
               IN  IF IsFourGroups(entry[2])
                   THEN /\ ls[2] = CmdSetType \o (IF forward THEN TypeA ELSE TypePTR)
                        /\ ls[4] = CmdSetIp \o entry[2]
                   ELSE /\ ls[2] = CmdSetType \o (IF forward THEN TypeAAAA ELSE TypePTRV6)
                        /\ ls[4] = CmdSetIpv6 \o entry[2]
        /\ ConfigureReturned => Len(records) = 2 * Len(dns_entries)

Ip_999 == <<"9", "9", "9", ".", "9", "9", "9", ".", "9", "9", "9", ".", "9", "9", "9">>

Ip_fe80 == <<"f", "e", "8", "0", ":", ":", "1">>

Ip_1_2_3 == <<"1", ".", "2", ".", "3">>

C2_Witness ==
    /\ ConfigureReturned
    /\ [k \in 1..Len(dns_entries) |-> dns_entries[k][2]] = <<Ip_999, Ip_fe80, Ip_1_2_3>>

\* the lines a session sends before its records
C3_Preamble ==
    <<CmdEnter,
      CmdDeletePrefix \o BaseName \o <<QUOTE>>,
      CmdEditPrefix \o <<QUOTE>> \o BaseName \o <<QUOTE>>,
      CmdSetDomain \o dnsdomain \o <<QUOTE>>,
      CmdSetTtl \o TtlText,
      CmdSetPrimaryName \o PrimaryDns \o <<QUOTE>>,
      CmdSetContact \o Contact \o <<QUOTE>>,
      CmdConfigEntries>>

C3_Closing == <<CmdEnd, CmdNext, CmdEnd>>

\* whether line may stand at place k of a session with m entries
C3_InPlace(k, line, m) ==
    LET np == Len(C3_Preamble)
        slot == (k - np - 1) % 5
    IN  IF k <= np THEN line = C3_Preamble[k]
        ELSE IF k <= np + 10 * m
        THEN CASE slot = 0 -> IsRecordEdit(line)
               [] slot = 1 -> StartsWith(line, CmdSetType)
               [] slot = 2 -> StartsWith(line, CmdSetHostname)
               [] slot = 3 -> StartsWith(line, CmdSetIp) \/ StartsWith(line, CmdSetIpv6)
               [] slot = 4 -> line = CmdNext
        ELSE k <= np + 10 * m + 3 /\ line = C3_Closing[k - np - 10 * m]

\* C3: the lines sent are, in this order, "config system dns-database", the
\* delete of the zone, the edit of the zone, the four set lines, "config
\* dns-entry", then edit / set type / set hostname / set ip or ipv6 / next for
\* each record, then "end", "next", "end"; every line sent so far stands at its
\* place in that order, and a session that ran to its end has sent all of it.
C3_CommandOrder ==
    LET sl == SentLines
    IN  /\ \A k \in 1..Len(sl) : C3_InPlace(k, sl[k], Len(dns_entries))
        /\ ConfigureReturned => Len(sl) = Len(C3_Preamble) + 10 * Len(dns_entries) + 3

C3_Witness ==
    /\ ConfigureReturned
    /\ Len(dns_entries) = 2
    /\ Len(SentLines) = 31

\* C9: write_dns_to_fortinet is never left, by return or by exception, with a
\* client it obtained still open.
C9_ClosedOnExit == (Exited /\ ConnectionObtained) => ssh_client = "closed"

C9_Witness ==
    /\ pc = "raised"
    /\ fault.kind = "socket.error"
    /\ fault.k = 7
    /\ ssh_client = "closed"

\* the texts of a session without fault, for the entries parsed
C10_FaultFree ==
    LET records == [j \in 1..(2 * Len(dns_entries)) |->
                       LET entry == dns_entries[(j + 1) \div 2]
                       IN  IF j % 2 = 1 THEN ForwardCommand(j, entry[1], entry[2])
                           ELSE ReverseCommand(j, entry[1], entry[2])]
        texts == <<CmdEnter, DeleteCommand, EditZoneCommand, SetCommand, CmdConfigEntries>>
                        \o records \o <<EndCommand>>
    IN  [k \in 1..Len(texts) |-> texts[k] \o <<NL>>]

\* C10: once a fault has hit the k-th command the function is left; what was
\* written is the first k-1 commands of the session (the fault came from send)
\* or its first k commands (it came from recv), each written once, and
\* nothing else: no later command, no repeat, no undo.
C10_AbortOnFault ==
    fault.k # 0 =>
        /\ Exited
        /\ Len(sent) = (IF fault.at = "send" THEN fault.k - 1 ELSE fault.k)
        /\ IsPrefix(sent, C10_FaultFree)
        /\ \A a, b \in 1..Len(sent) : a # b => sent[a] # sent[b]

C10_Witness ==
    /\ fault.k = 7
    /\ fault.at = "recv"
    /\ Len(sent) = 7
    /\ Len(dns_entries) = 3

-----------------------------------------------------------------------------
(* Claims about extraction, rendering and parsing, checked under SpecConvert *)

\* the document has been rendered
Rendered == pc \in {"converted", "write_dns", "connect"}

IsPoolLine(i) == PoolMatch(Strip(lines[i])) # NoMatch

IsHostLine(i) == ~IsPoolLine(i) /\ HostMatch(Strip(lines[i])) # NoMatch

\* the last line before line i that is no host line, 0 when there is none
LastNonHost(i) ==
    LET before == {j \in 1..(i - 1) : ~IsHostLine(j)}
    IN  IF before = {} THEN 0 ELSE CHOOSE j \in before : \A h \in before : h <= j

\* line i is a host line with a pool declaration and nothing but host lines before it
InPoolBlock(i) == IsHostLine(i) /\ LastNonHost(i) # 0 /\ IsPoolLine(LastNonHost(i))

\* the members of a set of numbers in ascending order
RECURSIVE Ascending(_)
Ascending(S) ==
    IF S = {} THEN <<>>
    ELSE LET least == CHOOSE j \in S : \A h \in S : j <= h
         IN  <<least>> \o Ascending(S \ {least})

\* the record a host line in a pool block stands for
RecordOfLine(i) ==
    <<HostMatch(Strip(lines[i]))[1],
      HostName(Lower(PoolMatch(Strip(lines[LastNonHost(i)]))[1]), dnsdomain)>>

\* C4: at every point of the scan the records are exactly those of the host
\* lines read so far that follow a pool declaration with only host lines in
\* between, one record per such line, in the order of the lines, each with the
\* address of its line and the lower-cased name of that pool; a host line
\* after a line that is neither leaves no record until the next declaration.
C4_ContextScoped ==
    LET src == Ascending({i \in 1..pos : InPoolBlock(i)})
    IN  /\ entry_src = src
        /\ host_entries = [k \in 1..Len(src) |-> RecordOfLine(src[k])]

\* a pool declaration, a host line, another line, a host line: one record
C4_Witness ==
    /\ pc = "scan"
    /\ Len(lines) = 4
    /\ pos = 4
    /\ IsPoolLine(1) /\ IsHostLine(2)
    /\ ~IsPoolLine(3) /\ ~IsHostLine(3) /\ IsHostLine(4)
    /\ Len(host_entries) = 1

\* the text of the document after the header and the existing content
GeneratedText == Drop(host_file, Len(Header(now)) + Len(existing_content))

GeneratedLines == IF GeneratedText = <<>> THEN <<>> ELSE SplitOn(GeneratedText, NL)

\* the address at the head of a line "<ip> <hostname>"
IpOfLine(line) == SubSeq(line, 1, LeadingToken(line))

\* second, third and fourth octet of a dotted quad
LastThreeOctets(ip) ==
    LET g == SplitOn(ip, ".")
    IN  <<DigitsValue(g[2]), DigitsValue(g[3]), DigitsValue(g[4])>>

TripleLeq(a, b) ==
    \/ a[1] < b[1]
    \/ a[1] = b[1] /\ a[2] < b[2]
    \/ a[1] = b[1] /\ a[2] = b[2] /\ a[3] <= b[3]

\* C5: in the rendered document the generated lines whose addresses are dotted
\* quads stand in ascending order of the numbers (second, third, fourth
\* octet), and lines that agree on these three numbers stand in the order of
\* the input whatever their first octets are.
C5_SortedByLastThree ==
    Rendered =>
        LET gl == GeneratedLines
            input == [k \in 1..Len(host_entries) |-> EntryLine(host_entries[k])]
            Quad(line) == IsFourGroups(IpOfLine(line))
        IN  /\ Len(gl) = Len(input)
            /\ \A i, j \in 1..Len(gl) :
                   (i < j /\ Quad(gl[i]) /\ Quad(gl[j])) =>
                       TripleLeq(LastThreeOctets(IpOfLine(gl[i])),
                                 LastThreeOctets(IpOfLine(gl[j])))
            /\ \A i \in 1..Len(gl) :
                   Quad(gl[i]) =>
                       LET SameKey(line) ==
                               /\ Quad(line)
                               /\ LastThreeOctets(IpOfLine(line))
                                      = LastThreeOctets(IpOfLine(gl[i]))
                       IN  SelectSeq(gl, SameKey) = SelectSeq(input, SameKey)

Ip_10_0_2_5 == <<"1", "0", ".", "0", ".", "2", ".", "5">>

Ip_10_0_1_9 == <<"1", "0", ".", "0", ".", "1", ".", "9">>

Ip_10_1_0_1 == <<"1", "0", ".", "1", ".", "0", ".", "1">>

\* 10.0.2.5, 10.0.1.9, 10.1.0.1 come out as 10.0.1.9, 10.0.2.5, 10.1.0.1
C5_Witness ==
    /\ Rendered
    /\ [k \in 1..Len(host_entries) |-> host_entries[k][1]]
           = <<Ip_10_0_2_5, Ip_10_0_1_9, Ip_10_1_0_1>>
    /\ [k \in 1..Len(GeneratedLines) |-> IpOfLine(GeneratedLines[k])]
           = <<Ip_10_0_1_9, Ip_10_0_2_5, Ip_10_1_0_1>>

\* the sorted records as parse_host_file is to give them back: (hostname, ip)
SortedPairs ==
    LET s == Sorted(host_entries)
    IN  [k \in 1..Len(s) |-> <<s[k][2], s[k][1]>>]

\* C6 as stated: whatever the records and the existing content, the entries
\* parsed out of the rendered document are the sorted records, none lost, none
\* added, in order.
C6_RoundTripAnyContent == pc = "connect" => dns_entries = SortedPairs

HasSpace(s) == \E k \in 1..Len(s) : IsSpace(s[k])

\* the existing content holds no entry and is empty or ends with a line break;
\* no hostname holds white space; no address begins with "#"
C6_CleanInput ==
    /\ parse_host_file(existing_content) = <<>>
    /\ existing_content = <<>> \/ IsLineBreak(existing_content[Len(existing_content)])
    /\ \A k \in 1..Len(host_entries) :
           /\ ~HasSpace(host_entries[k][2])
           /\ host_entries[k][1][1] # "#"

\* C6 amended: when the existing content holds no entry of its own and is
\* empty or ends with a line break, no pool name or domain holds white space
\* and no address begins with "#", the entries parsed out of the rendered
\* document are the sorted records, none lost, none added, in order.
C6_RoundTrip == (pc = "connect" /\ C6_CleanInput) => dns_entries = SortedPairs

C6_Witness ==
    /\ pc = "connect"
    /\ C6_CleanInput
    /\ Len(dns_entries) = 3
    /\ Sorted(host_entries) # host_entries

C8_Config == PoolPrinterLc \o <<NL>> \o Host_172_26_20_41

C8_Outcome ==
    /\ GeneratedLines = <<Line_172_printer>>
    /\ dns_entries = <<<<PrinterHomeArpa, Ip_172_26_20_41>>>>

-----------------------------------------------------------------------------
(* Claim about repeated rendering, checked under SpecRender *)

-----------------------------------------------------------------------------
(* C11: convert_to_host_file on malformed configuration text *)

\* C11: for every configuration text, the empty one and those with lines out
\* of the grammar or malformed addresses included, convert_to_host_file ends
\* without raising: the call never ends in the ValueError of the sort key
\* (line 117), and once it has returned every extracted address stands in the
\* document as it was read.
C11_NeverRaises ==
    /\ pc # "ValueError"
    /\ pc = "converted" =>
           \A e \in 1..Len(host_entries) :
               \E l \in 1..Len(GeneratedLines) :
                   GeneratedLines[l] = host_entries[e][1] \o <<SP>> \o host_entries[e][2]


-----------------------------------------------------------------------------
(* C13: the in-pool flag during the scan *)

\* the last of the lines 1..n that is no host line, 0 when there is none
LastNonHostUpTo(n) == LastNonHost(n + 1)

\* the name declared by pool line i, as the scan binds it
DeclaredName(i) == Lower(PoolMatch(Strip(lines[i]))[1])

\* the flag and the records after pos lines of the scan
C13_FlagState ==
    pc = "scan" =>
        /\ in_dhcp_pool <=>
               (LastNonHostUpTo(pos) # 0 /\ IsPoolLine(LastNonHostUpTo(pos)))
        /\ in_dhcp_pool => pool_name = DeclaredName(LastNonHostUpTo(pos))
        /\ \A e \in 1..Len(host_entries) :
               LET i == entry_src[e]
                   d == LastNonHost(i)
               IN  /\ d # 0
                   /\ IsPoolLine(d)
                   /\ \A j \in (d + 1)..(i - 1) : ~IsPoolLine(j)
                   /\ host_entries[e][2] = HostName(DeclaredName(d), dnsdomain)

\* a step of the scan that appends a record
C13_Appends == pc = "scan" /\ pc' = "scan" /\ Len(host_entries') > Len(host_entries)

\* C13: at every point of the scan a record is appended only while the
\* in-pool flag is true (and the flag stays true); the flag is true exactly
\* when a pool declaration has been read with nothing but host lines since;
\* every record comes from a line with a pool declaration before it and
\* carries the name of the most recent declaration before that line.
C13_FlagGuardsRecords ==
    /\ []C13_FlagState
    /\ [][C13_Appends => (in_dhcp_pool /\ in_dhcp_pool'
                          /\ Len(host_entries') = Len(host_entries) + 1)]_vars

\* two declarations, each followed by a host line: two records, two names
C13_Witness ==
    /\ pc = "scan"
    /\ pos = 4
    /\ lines = <<PoolPrinterLc, Host_172_26_20_41, PoolLabPc, Host_172_26_20_41>>
    /\ in_dhcp_pool
    /\ Len(host_entries) = 2
    /\ host_entries[1][2] # host_entries[2][2]
    /\ pool_name = DeclaredName(3)


-----------------------------------------------------------------------------
(* C16: the commands sent and the answers of the device *)

\* the answer of the device to a rejected command
ErrorResponse == "Command fail. Return code -61"

\* C16: what has been sent is, in every state and whatever text the shell has
\* returned, the first Len(sent) commands of the one sequence fixed by the
\* zone parameters and the entry list, so two sessions with the same inputs
\* send the same commands whatever they read; no text is sent a second time,
\* and an answer has been read only after a command was sent.
C16_ResponseBlind ==
    LET expected == C10_FaultFree
    IN  /\ Len(sent) <= Len(expected)
        /\ \A k \in 1..Len(sent) : sent[k] = expected[k]
        /\ \A a \in 1..Len(sent) : \A b \in (a + 1)..Len(sent) : sent[a] # sent[b]
        /\ output # NoOutput => sent # <<>>
        /\ (ConfigureReturned /\ fault = NoFault) => Len(sent) = Len(expected)

\* a session that ran to its end although the device answered the last
\* command with an error message; the same entry stands twice in the list
C16_Witness ==
    /\ pc = "returned"
    /\ fault = NoFault
    /\ output = ErrorResponse
    /\ Len(dns_entries) = 2
    /\ dns_entries[1] = dns_entries[2]
    /\ Len(sent) = 10


-----------------------------------------------------------------------------
(* C17: the records and the entries of the document *)

\* the lines of the document that hold an entry: not blank, no comment, two fields
EntryLinesOfDocument ==
    LET doc == SplitLines(host_file)
    IN  Ascending({i \in 1..Len(doc) :
                      /\ Strip(doc[i]) # <<>>
                      /\ doc[i][1] # "#"
                      /\ Len(SplitWs(doc[i])) = 2})

\* address and hostname of the k-th entry of the document
DocumentAddress(k) == SplitWs(SplitLines(host_file)[EntryLinesOfDocument[k]])[1]

DocumentHostname(k) == SplitWs(SplitLines(host_file)[EntryLinesOfDocument[k]])[2]

\* C17: the j-th record written is the record of index j; it belongs to entry
\* k = (j + 1) \div 2 of the document, counted in document order, the forward
\* record (A or AAAA) at index 2k - 1 and the reverse record (PTR or PTR_V6)
\* at index 2k, and carries the hostname and the address of that entry and of
\* no other; both records of an entry are written before any of the next.
C17_PairedByIndex ==
    LET records == RecordTexts
        entries == EntryLinesOfDocument
    IN  /\ Len(records) <= 2 * Len(entries)
        /\ \A j \in 1..Len(records) :
               LET k == (j + 1) \div 2
                   ls == SplitLines(records[j])
                   ip == DocumentAddress(k)
               IN  /\ Len(ls) = 5
                   /\ ls[1] = CmdEditPrefix \o Decimal(j)
                   /\ ls[2] \in (IF j = 2 * k - 1
                                 THEN {CmdSetType \o TypeA, CmdSetType \o TypeAAAA}
                                 ELSE {CmdSetType \o TypePTR, CmdSetType \o TypePTRV6})
                   /\ ls[3] = CmdSetHostname \o DocumentHostname(k) \o <<QUOTE>>
                   /\ ls[4] \in {CmdSetIp \o ip, CmdSetIpv6 \o ip}
                   /\ ls[5] = CmdNext
        /\ ConfigureReturned => Len(records) = 2 * Len(entries)

\* a document of two different entries with a comment line between them
C17_Witness ==
    /\ ConfigureReturned
    /\ SplitLines(host_file) = <<Doc_fe80, DocComment, Doc_192_168_1_1>>
    /\ Len(RecordTexts) = 4


-----------------------------------------------------------------------------
(* C18: the zone is deleted and created anew in every session *)

ZoneDeleteLine == <<"d", "e", "l", "e", "t", "e", " ", "\"", "l", "a", "n", "\"">>

ZoneEditLine == <<"e", "d", "i", "t", " ", "\"", "l", "a", "n", "\"">>

\* the places of a line among the lines sent
PlacesOf(line, sent_lines) == {k \in 1..Len(sent_lines) : sent_lines[k] = line}

\* C18: whatever the number of entries, the delete of the zone and then the
\* edit that creates it are sent once each, before the first record and
\* before the session ends: no record line and no closing line is ever sent
\* without them before it.  A session with no entry that ran to its end has
\* sent the delete, the edit, the four settings, "config dns-entry" and
\* "end", "next", "end", and no record.
C18_ZoneRecreated ==
    LET sl == SentLines
        deletes == PlacesOf(ZoneDeleteLine, sl)
        edits == PlacesOf(ZoneEditLine, sl)
    IN  /\ deletes \subseteq {2}
        /\ edits \subseteq {3}
        /\ Len(sl) >= 2 => deletes = {2}
        /\ Len(sl) >= 3 => edits = {3}
        /\ \A k \in 1..Len(sl) : IsRecordEdit(sl[k]) => (2 \in deletes /\ 3 \in edits /\ k > 3)
        /\ ConfigureReturned => (deletes = {2} /\ edits = {3})
        /\ (ConfigureReturned /\ dns_entries = <<>>) =>
               sl = <<CmdEnter, ZoneDeleteLine, ZoneEditLine,
                      CmdSetDomain \o dnsdomain \o <<QUOTE>>,
                      CmdSetTtl \o TtlText,
                      CmdSetPrimaryName \o PrimaryDns \o <<QUOTE>>,
                      CmdSetContact \o Contact \o <<QUOTE>>,
                      CmdConfigEntries, CmdEnd, CmdNext, CmdEnd>>

\* a session for a document of comments only, run to its end
C18_Witness ==
    /\ ConfigureReturned
    /\ host_file # <<>>
    /\ dns_entries = <<>>
    /\ Len(sent) = 6
    /\ RecordTexts = <<>>


-----------------------------------------------------------------------------
(* main: the Cisco device is read, the host file converted, written and     *)
(* post-processed, and the firewall provisioned                              *)

\* retrieve_dhcp_pool_config returning None (line 83): no text is this value
NoneValue == <<"None">>

\* the truth value Python gives a str or None (lines 264, 268)
Truthy(text) == text # NoneValue /\ text # <<>>

\* an entry of the history of main
Step(step, name) == [step |-> step, name |-> name]

\* the commands of config['commands'], run through the shell as they stand
ChownCommand == "chown dnsmasq /etc/dnsmasq.hosts"

ChgrpCommand == "chgrp dnsmasq /etc/dnsmasq.hosts"

RestartCommand == "systemctl restart dnsmasq"

\* an item of the mapping
Item(name, command) == [name |-> name, command |-> command]

\* the orders three items may stand in
Orders == {p \in [1..3 -> 1..3] : \A a, b \in 1..3 : a # b => p[a] # p[b]}

\* config['commands'] as yaml.safe_load returns it: a dict in the order of the
\* file.  In the order of the comment of line 278 (chown, chgrp, restart) each
\* command is configured or left empty; with all three configured the items
\* stand in any order.
CommandMappings ==
    {<<Item("chown", a), Item("chgrp", b), Item("restart", c)>> :
        a \in {ChownCommand, ""}, b \in {ChgrpCommand, ""}, c \in {RestartCommand, ""}}
    \cup
    {[k \in 1..3 |-> <<Item("chown", ChownCommand), Item("chgrp", ChgrpCommand),
                       Item("restart", RestartCommand)>>[p[k]]] : p \in Orders}

\* what the Cisco device may answer to the show command of line 77
MainConfigLines == {PoolPrinter, Host_10_0_2_5}

MainConfigs == {Join(ls, <<NL>>) : ls \in SeqsUpTo(MainConfigLines, MaxMainLines)}

\* what read_existing_host_file may return: the file's text, "" when it is missing
MainExisting == {<<>>, ExistingComment}

\* os.linesep where chown, chgrp and dnsmasq live
LineSep == <<NL>>

\* line 129-130: text mode with newline=os.linesep writes os.linesep for every "\n"
WrittenText(content) == Join(SplitOn(content, NL), LineSep)

Init ==
    /\ pc = "main"
    /\ dhcp_config = <<>>
    /\ existing_content = <<>>
    /\ dnsdomain = HomeArpa
    /\ host_file = NoDoc
    /\ commands \in CommandMappings
    /\ InitLocals

\* line 262, ssh_connect (60-71): a client, or None after an error it caught and
\* logged, or an error it does not catch (a socket error) that ends main
CiscoConnect ==
    /\ pc = "main"
    /\ \/ /\ cisco_client' = "open"
          /\ steps' = Append(steps, Step("connect", "cisco"))
          /\ pc' = "retrieve"
       \/ /\ cisco_client' = "None"
          /\ steps' = Append(steps, Step("error", "connect"))
          /\ pc' = "done"
       \/ /\ pc' = "raised"
          /\ UNCHANGED <<cisco_client, steps>>
    /\ UNCHANGED <<convert_vars, dns_entries, fortinet_vars, commands, cmd_no, output_file>>

\* line 265, retrieve_dhcp_pool_config (74-83): the text, or None after an
\* SSHException it caught and logged, or an error it does not catch
Retrieve ==
    /\ pc = "retrieve"
    /\ \/ /\ dhcp_config' \in MainConfigs
          /\ steps' = Append(steps, Step("retrieve", "cisco"))
          /\ pc' = "read_existing"
       \/ /\ dhcp_config' = NoneValue
          /\ steps' = Append(steps, Step("error", "retrieve"))
          /\ pc' = "read_existing"
       \/ /\ pc' = "raised"
          /\ UNCHANGED <<dhcp_config, steps>>
    /\ UNCHANGED <<existing_content, dnsdomain, lines, pos, in_dhcp_pool, pool_name,
                   host_entries, entry_src, now, host_file, prev_calls, dns_entries,
                   fortinet_vars, cisco_client, commands, cmd_no, output_file>>

\* ReadExisting with only None taken as "nothing retrieved"
ReadExisting_NoneOnly ==
    /\ pc = "read_existing"
    /\ existing_content' \in MainExisting
    /\ steps' = Append(steps, Step("read_existing", ""))
    /\ pc' = IF dhcp_config # NoneValue THEN "convert" ELSE "cisco_close"
    /\ UNCHANGED <<dhcp_config, dnsdomain, lines, pos, in_dhcp_pool, pool_name,
                   host_entries, entry_src, now, host_file, prev_calls, dns_entries,
                   fortinet_vars, cisco_client, commands, cmd_no, output_file>>

\* lines 266-268: the existing file is read, then the retrieved text is tested
ReadExisting ==
    /\ pc = "read_existing"
    /\ existing_content' \in MainExisting
    /\ steps' = Append(steps, Step("read_existing", ""))
    /\ pc' = IF Truthy(dhcp_config) THEN "convert" ELSE "cisco_close"
    /\ UNCHANGED <<dhcp_config, dnsdomain, lines, pos, in_dhcp_pool, pool_name,
                   host_entries, entry_src, now, host_file, prev_calls, dns_entries,
                   fortinet_vars, cisco_client, commands, cmd_no, output_file>>

\* lines 275-276, write_to_file (128-130): the file is written, or open/write
\* raises an OSError that ends main
WriteToFile ==
    /\ pc = "converted"
    /\ \/ /\ output_file' = WrittenText(host_file)
          /\ steps' = Append(steps, Step("write_to_file", ""))
          /\ pc' = "unix_commands"
       \/ /\ pc' = "raised"
          /\ UNCHANGED <<output_file, steps>>
    /\ UNCHANGED <<convert_vars, dns_entries, fortinet_vars, cisco_client, commands, cmd_no>>

\* ExecuteCommand without the except clause
ExecuteCommand_Propagates ==
    /\ pc = "unix_commands"
    /\ cmd_no < Len(commands)
    /\ LET item == commands[cmd_no + 1]
       IN  IF item.command = ""
           THEN /\ cmd_no' = cmd_no + 1
                /\ UNCHANGED <<pc, steps>>
           ELSE \/ /\ steps' = Append(steps, Step("run", item.name))
                   /\ cmd_no' = cmd_no + 1
                   /\ UNCHANGED pc
                \/ /\ steps' = Append(steps, Step("run", item.name))
                   /\ pc' = "raised"
                   /\ UNCHANGED cmd_no
    /\ UNCHANGED <<convert_vars, dns_entries, fortinet_vars, cisco_client, commands,
                   output_file>>

\* ExecuteCommand with the mapping walked from its end
ExecuteCommand_Reversed ==
    /\ pc = "unix_commands"
    /\ cmd_no < Len(commands)
    /\ LET item == commands[Len(commands) - cmd_no]
       IN  IF item.command = ""
           THEN /\ cmd_no' = cmd_no + 1
                /\ UNCHANGED <<pc, steps>>
           ELSE \/ /\ steps' = Append(steps, Step("run", item.name))
                   /\ cmd_no' = cmd_no + 1
                   /\ UNCHANGED pc
                \/ /\ steps' = steps \o <<Step("run", item.name), Step("error", item.name),
                                          Step("unix_commands_end", "")>>
                   /\ pc' = "write_dns"
                   /\ UNCHANGED cmd_no
    /\ UNCHANGED <<convert_vars, dns_entries, fortinet_vars, cisco_client, commands,
                   output_file>>

\* lines 135-140, one item of the mapping: an empty command is passed over; a
\* command is run through the shell; a non-zero exit status raises
\* CalledProcessError, which is logged with the name of the command and ends
\* the function without the remaining commands
ExecuteCommand ==
    /\ pc = "unix_commands"
    /\ cmd_no < Len(commands)
    /\ LET item == commands[cmd_no + 1]
       IN  IF item.command = ""
           THEN /\ cmd_no' = cmd_no + 1
                /\ UNCHANGED <<pc, steps>>
           ELSE \/ /\ steps' = Append(steps, Step("run", item.name))
                   /\ cmd_no' = cmd_no + 1
                   /\ UNCHANGED pc
                \/ /\ steps' = steps \o <<Step("run", item.name), Step("error", item.name),
                                          Step("unix_commands_end", "")>>
                   /\ pc' = "write_dns"
                   /\ UNCHANGED cmd_no
    /\ UNCHANGED <<convert_vars, dns_entries, fortinet_vars, cisco_client, commands,
                   output_file>>

\* line 135: the mapping is exhausted, execute_unix_commands returns (line 279)
EndCommands ==
    /\ pc = "unix_commands"
    /\ cmd_no = Len(commands)
    /\ steps' = Append(steps, Step("unix_commands_end", ""))
    /\ pc' = "write_dns"
    /\ UNCHANGED <<convert_vars, dns_entries, fortinet_vars, cisco_client, commands,
                   cmd_no, output_file>>

\* line 284: after write_dns_to_fortinet has returned, or with nothing
\* retrieved, the client of the Cisco device is closed and main ends
CiscoClose ==
    /\ pc \in {"returned", "cisco_close"}
    /\ cisco_client' = "closed"
    /\ steps' = Append(steps, Step("close", "cisco"))
    /\ pc' = "done"
    /\ UNCHANGED <<convert_vars, dns_entries, fortinet_vars, commands, cmd_no, output_file>>

Next ==
    \/ CiscoConnect
    \/ Retrieve
    \/ ReadExisting
    \/ ConvertBegin
    \/ ScanLine
    \/ SortAndRender
    \/ WriteToFile
    \/ ExecuteCommand
    \/ EndCommands
    \/ ParseHostFile
    \/ Connect
    \/ InvokeShell
    \/ SendEnter
    \/ SendDelete
    \/ SendEditZone
    \/ SendSet
    \/ SendConfigEntries
    \/ SendForward
    \/ SendReverse
    \/ SendEnd
    \/ Finally
    \/ CiscoClose

Spec == Init /\ [][Next]_vars


-----------------------------------------------------------------------------
(* Claims about the run of main, checked under Spec *)

\* the places of the history that hold the given entry
StepsAt(entry) == {k \in 1..Len(steps) : steps[k] = entry}

\* the names of the commands run, in the order they were run
CommandsRun ==
    LET runs == SelectSeq(steps, LAMBDA s : s.step = "run")
    IN  [k \in 1..Len(runs) |-> runs[k].name]

CommandNames == {"chown", "chgrp", "restart"}

\* the places of the history where the failure of a command was logged
CommandFailures == {k \in 1..Len(steps) : steps[k].step = "error" /\ steps[k].name \in CommandNames}

\* control is inside write_dns_to_fortinet or behind it
InOrAfterProvisioning ==
    pc \in {"write_dns", "connect", "invoke_shell", "cfg_enter", "cfg_delete", "cfg_edit",
            "cfg_set", "cfg_entries", "forward", "reverse", "finally", "returned",
            "raised", "done"}

\* after the failure of a command: it is logged under the name of the command
\* just run, execute_unix_commands has returned, the file is as written
C12_AfterFailure ==
    \A k \in CommandFailures :
        /\ k > 1
        /\ steps[k - 1] = Step("run", steps[k].name)
        /\ k < Len(steps)
        /\ steps[k + 1] = Step("unix_commands_end", "")
        /\ StepsAt(Step("write_to_file", "")) # {}
        /\ output_file # NoDoc
        /\ output_file = WrittenText(host_file)
        /\ InOrAfterProvisioning
        /\ pc = "raised" => fault # NoFault \/ ssh_client = "unset"

\* a step of execute_unix_commands that runs a command
C12_RunsCommand == pc = "unix_commands" /\ Len(steps') > Len(steps)

\* C12: a failing post-processing command is logged under its name and not
\* propagated: every step of execute_unix_commands that runs a command, failing
\* or not, leaves control in the function or at the call of
\* write_dns_to_fortinet, never in an exception, and leaves the written host
\* file as it is; after a failure the run is in the provisioning of the
\* firewall or behind it.
C12_FailureNotPropagated ==
    /\ []C12_AfterFailure
    /\ [][C12_RunsCommand => (/\ pc' \in {"unix_commands", "write_dns"}
                              /\ output_file' = output_file
                              /\ output_file' # NoDoc)]_vars

\* chown failed, and the run went on to write the zone and ended
C12_Witness ==
    /\ pc = "done"
    /\ StepsAt(Step("error", "chown")) # {}
    /\ CommandsRun = <<"chown">>
    /\ output_file = WrittenText(host_file)
    /\ fault = NoFault
    /\ Len(sent) = 8


\* the history holds no entry twice
NoStepTwice == \A a, b \in 1..Len(steps) : a # b => steps[a] # steps[b]

\* connecting to the Cisco device failed: None was returned, or an error ended main
CiscoConnectFailed ==
    \/ cisco_client = "None"
    \/ pc = "raised" /\ steps = <<>>

\* retrieving failed or brought nothing: None, an error that ended main, or ""
NothingRetrieved ==
    \/ dhcp_config = NoneValue
    \/ pc = "raised" /\ steps = <<Step("connect", "cisco")>>
    \/ dhcp_config = <<>> /\ StepsAt(Step("retrieve", "cisco")) # {}

\* C14: when connecting to the Cisco device fails, or retrieving its
\* configuration fails or returns empty text, the run ends there: nothing is
\* converted, no host file is written, no command is run, the firewall is
\* neither connected to nor sent anything, and neither the connection nor
\* the retrieval is tried a second time.
C14_AbortedRun ==
    (CiscoConnectFailed \/ NothingRetrieved) =>
        /\ host_file = NoDoc
        /\ output_file = NoDoc
        /\ CommandsRun = <<>>
        /\ cmd_no = 0
        /\ ssh_client = "unset"
        /\ sent = <<>>
        /\ dns_entries = <<>>
        /\ NoStepTwice
        /\ pc \in {"read_existing", "cisco_close", "done", "raised"}
        /\ CiscoConnectFailed => pc \in {"done", "raised"} /\ Len(steps) <= 1

\* the device answered with empty text; main closed the client and ended
C14_Witness ==
    /\ pc = "done"
    /\ dhcp_config = <<>>
    /\ steps = <<Step("connect", "cisco"), Step("retrieve", "cisco"),
                 Step("read_existing", ""), Step("close", "cisco")>>
    /\ cisco_client = "closed"

\* the place of a command in the order chown, chgrp, restart
OrderOf(name) == CASE name = "chown" -> 1 [] name = "chgrp" -> 2 [] name = "restart" -> 3

\* the names of the items of the mapping that hold a command, in the order of the mapping
ConfiguredNames ==
    LET configured == SelectSeq(commands, LAMBDA item : item.command # "")
    IN  [k \in 1..Len(configured) |-> configured[k].name]

\* the file is written before any command is run, and the firewall is
\* connected to and sent its first command only after execute_unix_commands
\* has ended, with no command run after that
StepsInOrder ==
    LET written == StepsAt(Step("write_to_file", ""))
        ended == StepsAt(Step("unix_commands_end", ""))
        runs == {k \in 1..Len(steps) : steps[k].step = "run"}
    IN  /\ Cardinality(written) <= 1 /\ Cardinality(ended) <= 1
        /\ \A r \in runs : /\ \E w \in written : w < r
                           /\ output_file = WrittenText(host_file)
                           /\ \A e \in ended : r < e
        /\ (sent # <<>> \/ ssh_client # "unset" \/ dns_entries # <<>>) =>
               (written # {} /\ ended # {})
        /\ ended # {} => (written # {} /\ InOrAfterProvisioning)

\* C15 as stated: in every run of main the host file is written before any
\* command is run, the commands are run in the order ownership change, group
\* change, service restart, and the first command goes to the firewall only
\* after the post-processing has ended.
C15_FixedCommandOrder ==
    LET run == CommandsRun
    IN  /\ \A a, b \in 1..Len(run) : a < b => OrderOf(run[a]) < OrderOf(run[b])
        /\ StepsInOrder

\* C15, amended: in every run of main the host file is written before any
\* command is run; the commands are run in the order in which the configured
\* mapping lists them (each once, the empty ones left out, none after one
\* that failed), which is ownership change, group change, service restart
\* when the mapping lists them so; and the firewall is connected to and sent
\* its first command only after execute_unix_commands has ended.
C15_PipelineOrder ==
    LET run == CommandsRun
        ended == StepsAt(Step("unix_commands_end", ""))
    IN  /\ IsPrefix(run, ConfiguredNames)
        /\ (ended # {} /\ CommandFailures = {}) => run = ConfiguredNames
        /\ ConfiguredNames \in {<<>>, <<"chown">>, <<"chgrp">>, <<"restart">>,
                                 <<"chown", "chgrp">>, <<"chown", "restart">>,
                                 <<"chgrp", "restart">>, <<"chown", "chgrp", "restart">>}
               => \A a, b \in 1..Len(run) : a < b => OrderOf(run[a]) < OrderOf(run[b])
        /\ StepsInOrder

\* a run with all three commands, then the zone written for one entry
C15_Witness ==
    /\ pc = "done"
    /\ CommandsRun = <<"chown", "chgrp", "restart">>
    /\ CommandFailures = {}
    /\ fault = NoFault
    /\ Len(dns_entries) = 1
    /\ Len(sent) = 8

====
